---- MODULE Spec2Model ----
(***************************************************************************)
(* Model of WorkerThread (src/main_windows.py): the segmentation run that  *)
(* locates ffmpeg, probes duration and resolution, plans the geometry and  *)
(* the segments, and runs one ffmpeg command per segment in fast (stream   *)
(* copy) or precise (re-encode) mode, emitting Qt signals on the way; and  *)
(* of VideoSplitterApp, the window that starts a WorkerThread on a click   *)
(* of START and handles its signals.                                       *)
(*                                                                         *)
(* Text (process output) is a sequence of one-character strings.           *)
(* Time is counted in tenths of a second: total_duration, remaining_time   *)
(* and duration are integers of tenths; segment_duration is in seconds as  *)
(* in the code.  The loop's comparisons of a float with an int are exact   *)
(* in IEEE arithmetic, so integer tenths decide them the same way.         *)
(***************************************************************************)
EXTENDS Integers, Sequences, FiniteSets, TLC

VARIABLES
    pc,                  \* position of run()
    mode,                \* self.mode (run() may overwrite it)
    req_mode,            \* the mode given to __init__ (history of self.mode)
    resolution,          \* self.resolution: the aspect target
    scale_crop,          \* self.scale_crop
    segment_duration,    \* self.segment_duration, seconds
    ext,                 \* extension of self.input_path
    ffmpeg_path,         \* result of get_ffmpeg_path()
    total_duration,      \* float parsed from the duration probe
    original_resolution, \* text of the resolution probe, or the default
    target,              \* (target_width, target_height)
    num_segments,        \* int(total_duration // segment_duration) + 1
    scale_filter,        \* the -vf argument, or the empty string
    i,                   \* loop index
    cmd,                 \* the command handed to subprocess.run, while it runs
    events,              \* signals emitted so far, in order
    cmds,                \* every segment command built so far, in order
    calls,               \* every external-tool invocation so far, in order
    returns,             \* what each finished invocation gave back, in order
    host_has_tool,       \* whether any search location held the tool (history)
    input_path,          \* VideoSplitterApp.input_path: "" for None, else the
                         \* extension that stands for the chosen file
    start_enabled,       \* start_btn.isEnabled()
    progress_visible,    \* progress_bar.isVisible()
    progress_value,      \* progress_bar.value()
    log,                 \* the lines of log_text, by tag
    clicks,              \* clicks of START so far (history)
    mkdir_failures,      \* calls of os.makedirs that raised (history)
    threads_started,     \* WorkerThread objects created and started (history)
    handled,             \* signals of worker_thread already handled by the slots
    orphans,             \* started threads no longer held by worker_thread
                         \* whose terminal signal is not handled yet
    alive                \* the process has not been aborted

\* the state of one WorkerThread
worker_vars == <<pc, mode, req_mode, resolution, scale_crop, segment_duration, ext,
                 ffmpeg_path, total_duration, original_resolution, target,
                 num_segments, scale_filter, i, cmd, events, cmds, calls,
                 returns, host_has_tool>>

\* the state of the VideoSplitterApp window
gui_vars == <<input_path, start_enabled, progress_visible, progress_value, log,
              clicks, mkdir_failures, threads_started, handled, orphans, alive>>

vars == <<worker_vars, gui_vars>>

----------------------------------------------------------------------------
(* Bounds of the model *)

\* longest probed duration enumerated, in seconds
MaxDuration == 6
\* largest segment length enumerated besides the GUI default
MaxSegLen == 3
\* runs with more planned segments than this are not explored
MaxSegments == 4
\* source widths and heights 1..MaxDim are enumerated besides the ceilings
MaxDim == 18
\* clicks of START explored in the window
MaxClicks == 2

----------------------------------------------------------------------------
(* Text *)

DigitChars == <<"0", "1", "2", "3", "4", "5", "6", "7", "8", "9">>

IsDigit(c) == \E d \in 1..Len(DigitChars) : DigitChars[d] = c

DigitVal(c) == (CHOOSE d \in 1..Len(DigitChars) : DigitChars[d] = c) - 1

IsSpace(c) == c \in {" ", "\n"}

\* decimal text of a natural number, as the probe tool prints it
RECURSIVE FormatInt(_)
FormatInt(n) ==
    IF n < 10 THEN <<DigitChars[n + 1]>>
    ELSE FormatInt(n \div 10) \o <<DigitChars[(n % 10) + 1]>>

\* "WIDTHxHEIGHT" followed by a newline: the csv=s=x:p=0 output format
FormatResolution(w, h) == FormatInt(w) \o <<"x">> \o FormatInt(h) \o <<"\n">>

\* seconds with six decimals followed by a newline: the format=duration output
FormatDuration(tenths) ==
    FormatInt(tenths \div 10) \o <<".">> \o FormatInt(tenths % 10)
        \o <<"0", "0", "0", "0", "0", "\n">>

\* str.strip()
RECURSIVE LStrip(_)
LStrip(s) == IF s # <<>> /\ IsSpace(Head(s)) THEN LStrip(Tail(s)) ELSE s

RECURSIVE RStrip(_)
RStrip(s) ==
    IF s # <<>> /\ IsSpace(s[Len(s)]) THEN RStrip(SubSeq(s, 1, Len(s) - 1)) ELSE s

Strip(s) == RStrip(LStrip(s))

\* str.split('x'): the fields between the separators, empty fields kept
RECURSIVE SplitX(_)
SplitX(s) ==
    IF \A k \in 1..Len(s) : s[k] # "x" THEN <<s>>
    ELSE LET k == CHOOSE j \in 1..Len(s) :
                      s[j] = "x" /\ \A m \in 1..(j - 1) : s[m] # "x"
         IN  <<SubSeq(s, 1, k - 1)>> \o SplitX(SubSeq(s, k + 1, Len(s)))

\* value of a non-empty run of digits
RECURSIVE DigitsValue(_)
DigitsValue(s) ==
    IF Len(s) = 1 THEN DigitVal(s[1])
    ELSE DigitsValue(SubSeq(s, 1, Len(s) - 1)) * 10 + DigitVal(s[Len(s)])

AllDigits(s) == s # <<>> /\ \A k \in 1..Len(s) : IsDigit(s[k])

\* int(text): surrounding whitespace, an optional sign, then digits; anything
\* else raises ValueError (ok = FALSE)
ParseInt(text) ==
    LET s    == Strip(text)
        neg  == s # <<>> /\ s[1] = "-"
        body == IF s # <<>> /\ s[1] \in {"-", "+"} THEN Tail(s) ELSE s
    IN  IF AllDigits(body)
        THEN [ok |-> TRUE, v |-> IF neg THEN 0 - DigitsValue(body) ELSE DigitsValue(body)]
        ELSE [ok |-> FALSE, v |-> 0]

\* a plausible slip: text that is no finite number is read as 0.0
ParseFloatLenient(text) ==
    LET s    == Strip(text)
        neg  == s # <<>> /\ s[1] = "-"
        body == IF s # <<>> /\ s[1] \in {"-", "+"} THEN Tail(s) ELSE s
        dot  == IF \E k \in 1..Len(body) : body[k] = "."
                THEN CHOOSE k \in 1..Len(body) : body[k] = "." ELSE 0
        ip   == IF dot = 0 THEN body ELSE SubSeq(body, 1, dot - 1)
        fp   == IF dot = 0 THEN <<>> ELSE SubSeq(body, dot + 1, Len(body))
        mag  == DigitsValue(ip) * 10 + (IF fp = <<>> THEN 0 ELSE DigitVal(fp[1]))
    IN  IF AllDigits(ip) /\ (fp = <<>> \/ AllDigits(fp))
        THEN [kind |-> "num", v |-> IF neg THEN 0 - mag ELSE mag]
        ELSE [kind |-> "num", v |-> 0]

\* float(text): whitespace, an optional sign, then nan, inf, digits, or digits
\* with a fraction; anything else raises ValueError (kind = "error").  The
\* value is kept in tenths: the first fractional digit.
ParseFloat(text) ==
    LET s    == Strip(text)
        neg  == s # <<>> /\ s[1] = "-"
        body == IF s # <<>> /\ s[1] \in {"-", "+"} THEN Tail(s) ELSE s
        dot  == IF \E k \in 1..Len(body) : body[k] = "."
                THEN CHOOSE k \in 1..Len(body) : body[k] = "." ELSE 0
        ip   == IF dot = 0 THEN body ELSE SubSeq(body, 1, dot - 1)
        fp   == IF dot = 0 THEN <<>> ELSE SubSeq(body, dot + 1, Len(body))
        mag  == DigitsValue(ip) * 10 + (IF fp = <<>> THEN 0 ELSE DigitVal(fp[1]))
    IN  IF body = <<"n", "a", "n">> THEN [kind |-> "nan", v |-> 0]
        ELSE IF body = <<"i", "n", "f">> THEN [kind |-> "inf", v |-> 0]
        ELSE IF AllDigits(ip) /\ (fp = <<>> \/ AllDigits(fp))
        THEN [kind |-> "num", v |-> IF neg THEN 0 - mag ELSE mag]
        ELSE [kind |-> "error", v |-> 0]

\* a plausible slip: round(a / b) where the code truncates
IntDivRounded(a, b) == (2 * a + b) \div (2 * b)

\* int(a / b) for b > 0: float division, then truncation towards zero
IntDiv(a, b) == IF a >= 0 THEN a \div b ELSE 0 - ((0 - a) \div b)

Min2(a, b) == IF a <= b THEN a ELSE b

\* a plausible slip: f"{i}", the index without its padding
Format03dUnpadded(n) == FormatInt(n)

\* f"{i:03d}"
Format03d(n) ==
    LET d == FormatInt(n)
    IN  IF Len(d) >= 3 THEN d ELSE [k \in 1..(3 - Len(d)) |-> "0"] \o d

----------------------------------------------------------------------------
(* get_ffmpeg_path *)

\* the value None
NoPath == [none |-> TRUE, prefix |-> ""]

SomePath(p) == [none |-> FALSE, prefix |-> p]

\* what the host offers: ffmpeg.exe beside the executable, whether the program
\* is a frozen bundle, ffmpeg.exe in the bundle directory, ffmpeg.exe in the
\* working directory, and whether "ffmpeg -version" runs from the PATH.
\* sys.executable is an absolute path, so dirname(abspath(sys.executable)) and
\* dirname(sys.executable) are one directory: both checks see the same file.
Hosts == {h \in [exe_dir : BOOLEAN, frozen : BOOLEAN, bundle_dir : BOOLEAN,
                 cwd : BOOLEAN, path : BOOLEAN] : h.bundle_dir = h.exe_dir}

\* a plausible slip: the last resort answers with the program's directory
get_ffmpeg_path_default(host) ==
    IF host.exe_dir THEN SomePath("<exe_dir>\\")
    ELSE IF host.frozen /\ host.bundle_dir THEN SomePath("<exe_dir>\\")
    ELSE IF host.cwd THEN SomePath("")
    ELSE IF host.path THEN SomePath("")
    ELSE SomePath("<exe_dir>\\")

get_ffmpeg_path(host) ==
    IF host.exe_dir THEN SomePath("<exe_dir>\\")
    ELSE IF host.frozen /\ host.bundle_dir THEN SomePath("<exe_dir>\\")
    ELSE IF host.cwd THEN SomePath("")
    ELSE IF host.path THEN SomePath("")
    ELSE NoPath

\* Python truth of the returned value: None and "" are both false
Truthy(p) == ~p.none /\ p.prefix # ""

\* at least one of the four search locations has the tool
HostHasTool(host) ==
    host.exe_dir \/ (host.frozen /\ host.bundle_dir) \/ host.cwd \/ host.path

----------------------------------------------------------------------------
(* calculate_target_resolution *)

Ratios == {"original", "16:9", "9:16", "4:5", "1:1"}

\* ceilings of the four ratio classes and the fallback source size
MaxHeight916 == 1920
MaxHeight45 == 1350
MaxSquare == 1080
MaxWidth169 == 1920
DefaultWidth == 1920
DefaultHeight == 1080

\* (None, None)
NoTarget == [some |-> FALSE, w |-> 0, h |-> 0]

Target(w, h) == [some |-> TRUE, w |-> w, h |-> h]

\* a plausible slip: the except branch leaves the size empty
ParseResolutionZero(original_res) ==
    LET fields == SplitX(original_res)
    IN  IF Len(fields) = 2 /\ ParseInt(fields[1]).ok /\ ParseInt(fields[2]).ok
        THEN [parsed |-> TRUE, w |-> ParseInt(fields[1]).v, h |-> ParseInt(fields[2]).v]
        ELSE [parsed |-> FALSE, w |-> 0, h |-> 0]

\* orig_width, orig_height = map(int, original_res.split('x')), and the
\* (1920, 1080) of the except branch when that raises
ParseResolution(original_res) ==
    LET fields == SplitX(original_res)
    IN  IF Len(fields) = 2 /\ ParseInt(fields[1]).ok /\ ParseInt(fields[2]).ok
        THEN [parsed |-> TRUE, w |-> ParseInt(fields[1]).v, h |-> ParseInt(fields[2]).v]
        ELSE [parsed |-> FALSE, w |-> DefaultWidth, h |-> DefaultHeight]

calculate_target_resolution(original_res, target_ratio) ==
    IF target_ratio = "original" THEN NoTarget
    ELSE LET orig == ParseResolution(original_res)
         IN  CASE target_ratio = "9:16" ->
                    LET th == Min2(orig.h, MaxHeight916)
                    IN  Target(IntDiv(th * 9, 16), th)
               [] target_ratio = "4:5" ->
                    LET th == Min2(orig.h, MaxHeight45)
                    IN  Target(IntDiv(th * 4, 5), th)
               [] target_ratio = "1:1" ->
                    LET ts == Min2(Min2(orig.w, orig.h), MaxSquare)
                    IN  Target(ts, ts)
               [] target_ratio = "16:9" ->
                    LET tw == Min2(orig.w, MaxWidth169)
                    IN  Target(tw, IntDiv(tw * 9, 16))
               [] OTHER -> NoTarget

\* "if target_width and target_height": None and 0 are both false
TargetTruthy(t) == t.some /\ t.w # 0 /\ t.h # 0

----------------------------------------------------------------------------
(* Inputs *)

\* the spin box's initial value
DefaultSegLen == 60

\* duration_spin values explored (its range is 1..3600)
SegmentLengths == (1..MaxSegLen) \cup {DefaultSegLen}

Exts == {".mp4", ".mov"}

\* durations the probe may report, in tenths: whole and half seconds up to
\* MaxDuration, and the two- and two-and-a-bit-segment cases of the default length
DurationTenths ==
    {s * 10 + f : s \in 0..MaxDuration, f \in {0, 5}}
        \cup {DefaultSegLen * 20, DefaultSegLen * 20 + 50}

\* stdout of the duration probe: a number, nothing, "N/A", nan, inf, a negative
DurationTexts ==
    {FormatDuration(t) : t \in DurationTenths}
        \cup {<<>>, <<"\n">>, <<"N", "/", "A", "\n">>, <<"n", "a", "n">>,
              <<"i", "n", "f">>, <<"-">> \o FormatDuration(15)}

\* stdout of the resolution probe: a size, an odd size, nothing, "N/A", two lines
ResolutionTexts ==
    {FormatResolution(1920, 1080), FormatResolution(641, 481), <<>>,
     <<"N", "/", "A", "\n">>,
     FormatResolution(1280, 720) \o FormatResolution(1280, 720)}

\* what subprocess.run does: raise, or return a code and the captured stdout
Raised == [raised |-> TRUE, returncode |-> 0, stdout |-> <<>>]

Returned(rc, out) == [raised |-> FALSE, returncode |-> rc, stdout |-> out]

DurationResults ==
    {Raised, Returned(1, <<>>)} \cup {Returned(0, t) : t \in DurationTexts}

ResolutionResults ==
    {Raised, Returned(1, <<>>)} \cup {Returned(0, t) : t \in ResolutionTexts}

SegmentResults == {Raised, Returned(1, <<>>), Returned(0, <<>>)}

----------------------------------------------------------------------------
(* Signals *)

Progress(tag, n) == [type |-> "progress", tag |-> tag, n |-> n]

SegmentProgress(value) == [type |-> "segment_progress", tag |-> "", n |-> value]

Finished == [type |-> "finished", tag |-> "success", n |-> 0]

Error(tag, n) == [type |-> "error", tag |-> tag, n |-> n]

\* the except branch of run(): error.emit(str(e))
Exception == Error("exception", 0)

IsTerminal(e) == e.type \in {"finished", "error"}

----------------------------------------------------------------------------
(* The pieces of run() *)

\* the float not yet read
NoDuration == [kind |-> "unset", v |-> 0]

\* the "1920x1080" used when the resolution probe fails
DefaultResolution == <<"1", "9", "2", "0", "x", "1", "0", "8", "0">>

\* int(total_duration // self.segment_duration) + 1, total in tenths
NumSegments(total, seg) == (total \div (seg * 10)) + 1

\* scale_filter: "" or the -vf expression with its numbers
NoFilter == [present |-> FALSE, crop |-> FALSE, w |-> 0, h |-> 0, some |-> FALSE]

ScaleFilter(res, crop, t) ==
    IF res # "original"
    THEN [present |-> TRUE, crop |-> crop, w |-> t.w, h |-> t.h, some |-> t.some]
    ELSE NoFilter

\* a plausible slip: the switch to precise made outside the ratio check
EffectiveModeForced(m, res) == "precise"

\* a plausible slip: the switch to precise is left out
EffectiveModeKept(m, res) == m

\* self.mode after the "force re-encoding" block
EffectiveMode(m, res) == IF res # "original" /\ m = "fast" THEN "precise" ELSE m

\* start_time = i * self.segment_duration, in seconds
StartTime(k, seg) == k * seg

\* remaining_time = total_duration - start_time, in tenths
RemainingTime(total, k, seg) == total - StartTime(k, seg) * 10

\* a plausible slip: the last segment is not cut to what is left
DurationUncut(total, k, seg) == seg * 10

\* a plausible slip: every segment runs to the end of the file
DurationToEnd(total, k, seg) == RemainingTime(total, k, seg)

\* duration of segment k, in tenths
Duration(total, k, seg) ==
    IF RemainingTime(total, k, seg) < seg * 10
    THEN RemainingTime(total, k, seg)
    ELSE seg * 10

\* a plausible slip: the share still to do instead of the share done
PercentLeft(k, n) == 100 - IntDiv(k * 100, n)

\* int((i + 1) / num_segments * 100); the float product truncates to the
\* integer quotient for every num_segments below 50
Percent(k, n) == IntDiv((k + 1) * 100, n)

NoCmd == [i |-> 0 - 1, ss |-> 0, t |-> 0, codec |-> "", vf |-> NoFilter,
          index |-> <<>>, ext |-> ""]

FastCmd(k, total, seg, filter, e) ==
    [i |-> k, ss |-> StartTime(k, seg), t |-> Duration(total, k, seg),
     codec |-> "copy", vf |-> filter, index |-> Format03d(k), ext |-> e]

PreciseCmd(k, total, seg, filter, e) ==
    [i |-> k, ss |-> StartTime(k, seg), t |-> Duration(total, k, seg),
     codec |-> "libx264", vf |-> filter, index |-> Format03d(k), ext |-> ".mp4"]

\* entry of the returns log
Return(call, k, r) ==
    [call |-> call, i |-> k, raised |-> r.raised, returncode |-> r.returncode,
     stdout |-> r.stdout]

\* what the rest of a loop body does with the result r of segment k: the
\* signals it emits, where run() goes next, and the loop index
After(emit, next, k) == [emit |-> emit, pc |-> next, i |-> k]

\* the dead "if start_time >= total_duration: break" closing both loop bodies
BreakAfter(k, seg, total) == StartTime(k, seg) * 10 >= total

\* a plausible slip: the fast loop given the precise loop's error handling
FastAfterRunStrict(r, k, n, seg, total) ==
    IF r.raised THEN After(<<Exception>>, "done", k)
    ELSE IF r.returncode # 0
    THEN After(<<Error("segment_failed", k + 1)>>, "done", k)
    ELSE After(<<Progress("segment_ready", k + 1), SegmentProgress(Percent(k, n))>>,
               "fast_loop", k + 1)

\* a plausible slip: a segment that exited non-zero is run again
FastAfterRunRetry(r, k, n, seg, total) ==
    IF r.raised THEN After(<<Exception>>, "done", k)
    ELSE IF r.returncode # 0
    THEN After(<<Progress("segment_warning", k + 1)>>, "fast_loop", k)
    ELSE LET pct == SegmentProgress(Percent(k, n))
         IN  IF BreakAfter(k, seg, total)
             THEN After(<<Progress("segment_ready", k + 1), pct, Finished>>, "done", k)
             ELSE After(<<Progress("segment_ready", k + 1), pct>>, "fast_loop", k + 1)

\* a plausible slip: a raised call is logged as a warning and the loop goes on
FastAfterRunSwallow(r, k, n, seg, total) ==
    LET line == IF r.raised \/ r.returncode # 0
                THEN Progress("segment_warning", k + 1)
                ELSE Progress("segment_ready", k + 1)
        pct  == SegmentProgress(Percent(k, n))
    IN  IF BreakAfter(k, seg, total)
        THEN After(<<line, pct, Finished>>, "done", k)
        ELSE After(<<line, pct>>, "fast_loop", k + 1)

\* fast body: a warning or a ready line, then the percentage; the loop goes on
FastAfterRun(r, k, n, seg, total) ==
    IF r.raised THEN After(<<Exception>>, "done", k)
    ELSE LET line == IF r.returncode # 0
                     THEN Progress("segment_warning", k + 1)
                     ELSE Progress("segment_ready", k + 1)
             pct  == SegmentProgress(Percent(k, n))
         IN  IF BreakAfter(k, seg, total)
             THEN After(<<line, pct, Finished>>, "done", k)
             ELSE After(<<line, pct>>, "fast_loop", k + 1)

\* a plausible slip: the precise loop given the fast loop's warning handling
PreciseAfterRunLenient(r, k, n, seg, total) ==
    IF r.raised THEN After(<<Exception>>, "done", k)
    ELSE LET line == IF r.returncode # 0
                     THEN Progress("segment_warning", k + 1)
                     ELSE Progress("segment_ready", k + 1)
         IN  After(<<line, SegmentProgress(Percent(k, n))>>, "precise_loop", k + 1)

\* a plausible slip: the return after the error signal is missing
PreciseAfterRunNoReturn(r, k, n, seg, total) ==
    IF r.raised THEN After(<<Exception>>, "done", k)
    ELSE LET line == IF r.returncode # 0
                     THEN Error("segment_failed", k + 1)
                     ELSE Progress("segment_ready", k + 1)
             pct  == SegmentProgress(Percent(k, n))
         IN  IF BreakAfter(k, seg, total)
             THEN After(<<line, pct, Finished>>, "done", k)
             ELSE After(<<line, pct>>, "precise_loop", k + 1)

\* precise body: the error and return, or a ready line and the percentage
PreciseAfterRun(r, k, n, seg, total) ==
    IF r.raised THEN After(<<Exception>>, "done", k)
    ELSE IF r.returncode # 0
    THEN After(<<Error("segment_failed", k + 1)>>, "done", k)
    ELSE LET pct == SegmentProgress(Percent(k, n))
         IN  IF BreakAfter(k, seg, total)
             THEN After(<<Progress("segment_ready", k + 1), pct, Finished>>, "done", k)
             ELSE After(<<Progress("segment_ready", k + 1), pct>>, "precise_loop", k + 1)

----------------------------------------------------------------------------
(* VideoSplitterApp: the window as start_splitting leaves it *)

\* the seven lines start_splitting writes after clearing the log, and the
\* empty line after them
Banner == <<"start", "input_file", "output_dir", "segment_duration",
            "resolution", "scaling", "mode", "">>

\* the window right after start_splitting has started its first worker on
\* the file path
Started(path) ==
    /\ input_path = path
    /\ start_enabled = FALSE
    /\ progress_visible = TRUE
    /\ progress_value = 0
    /\ log = Banner
    /\ clicks = 1
    /\ mkdir_failures = 0
    /\ threads_started = 1
    /\ handled = 0
    /\ orphans = 0
    /\ alive = TRUE

----------------------------------------------------------------------------
(* WorkerThread.__init__ *)

Init ==
    /\ pc = "start"
    /\ mode \in {"fast", "precise"}
    /\ req_mode = mode
    /\ resolution \in Ratios
    /\ scale_crop \in BOOLEAN
    /\ segment_duration \in SegmentLengths
    /\ ext \in Exts
    /\ ffmpeg_path = NoPath
    /\ total_duration = NoDuration
    /\ original_resolution = <<>>
    /\ target = NoTarget
    /\ num_segments = 0
    /\ scale_filter = NoFilter
    /\ i = 0
    /\ cmd = NoCmd
    /\ events = <<>>
    /\ cmds = <<>>
    /\ calls = <<>>
    /\ returns = <<>>
    /\ host_has_tool = FALSE
    /\ Started(ext)

----------------------------------------------------------------------------
(* WorkerThread.run *)

\* tool discovery: the "not found" error, or the first progress line
GetFfmpegPath ==
    /\ pc = "start"
    /\ \E host \in Hosts :
         LET p == get_ffmpeg_path(host)
         IN  /\ ffmpeg_path' = p
             /\ host_has_tool' = HostHasTool(host)
             /\ IF ~Truthy(p)
                THEN /\ events' = Append(events, Error("ffmpeg_not_found", 0))
                     /\ pc' = "done"
                ELSE /\ events' = Append(events, Progress("probing", 0))
                     /\ pc' = "probe_duration"
    /\ UNCHANGED gui_vars
    /\ UNCHANGED <<mode, req_mode, resolution, scale_crop, segment_duration, ext,
                   total_duration, original_resolution, target, num_segments,
                   scale_filter, i, cmd, cmds, calls, returns>>

\* the duration probe and float(result.stdout.strip())
ProbeDuration ==
    /\ pc = "probe_duration"
    /\ calls' = Append(calls, "duration")
    /\ \E r \in DurationResults :
         LET d == ParseFloat(Strip(r.stdout))
         IN  /\ d.kind = "num" => NumSegments(d.v, segment_duration) <= MaxSegments
             /\ returns' = Append(returns, Return("duration", 0, r))
             /\ IF r.raised
                THEN /\ events' = Append(events, Exception)
                     /\ pc' = "done"
                     /\ UNCHANGED total_duration
                ELSE IF r.returncode # 0
                THEN /\ events' = Append(events, Error("duration_failed", 0))
                     /\ pc' = "done"
                     /\ UNCHANGED total_duration
                ELSE IF d.kind = "error"
                THEN /\ events' = Append(events, Exception)
                     /\ pc' = "done"
                     /\ UNCHANGED total_duration
                ELSE /\ total_duration' = d
                     /\ pc' = "probe_resolution"
                     /\ UNCHANGED events
    /\ UNCHANGED gui_vars
    /\ UNCHANGED <<mode, req_mode, resolution, scale_crop, segment_duration, ext,
                   ffmpeg_path, original_resolution, target, num_segments,
                   scale_filter, i, cmd, cmds, host_has_tool>>

\* the resolution probe, with "1920x1080" standing in for a failed one
ProbeResolution ==
    /\ pc = "probe_resolution"
    /\ calls' = Append(calls, "resolution")
    /\ \E r \in ResolutionResults :
         /\ returns' = Append(returns, Return("resolution", 0, r))
         /\ IF r.raised
            THEN /\ events' = Append(events, Exception)
                 /\ pc' = "done"
                 /\ UNCHANGED original_resolution
            ELSE /\ original_resolution' =
                       IF r.returncode = 0 THEN Strip(r.stdout) ELSE DefaultResolution
                 /\ events' = Append(events, Progress("original_resolution", 0))
                 /\ pc' = "plan"
    /\ UNCHANGED gui_vars
    /\ UNCHANGED <<mode, req_mode, resolution, scale_crop, segment_duration, ext,
                   ffmpeg_path, total_duration, target, num_segments,
                   scale_filter, i, cmd, cmds, host_has_tool>>

\* target resolution, segment count, scale filter, mode switch, mode banner
Plan ==
    /\ pc = "plan"
    /\ LET t   == calculate_target_resolution(original_resolution, resolution)
           ev1 == IF TargetTruthy(t)
                  THEN <<Progress("target_resolution", 0)>> ELSE <<>>
           n   == NumSegments(total_duration.v, segment_duration)
           ev2 == <<Progress("duration_info", n)>>
           ev3 == IF resolution = "original" THEN <<>>
                  ELSE IF scale_crop THEN <<Progress("scale_crop", 0)>>
                  ELSE <<Progress("scale_pad", 0)>>
           m   == EffectiveMode(mode, resolution)
           ev4 == IF resolution # "original" /\ mode = "fast"
                  THEN <<Progress("mode_switch", 0)>> ELSE <<>>
           ev5 == IF m = "fast" THEN <<Progress("fast_mode", 0)>>
                  ELSE <<Progress("precise_mode", 0)>>
       IN  /\ target' = t
           /\ IF total_duration.kind # "num"
              THEN \* int(nan) and int(inf) raise
                   /\ events' = events \o ev1 \o <<Exception>>
                   /\ pc' = "done"
                   /\ UNCHANGED <<num_segments, scale_filter, mode>>
              ELSE /\ num_segments' = n
                   /\ scale_filter' = ScaleFilter(resolution, scale_crop, t)
                   /\ mode' = m
                   /\ events' = events \o ev1 \o ev2 \o ev3 \o ev4 \o ev5
                   /\ pc' = IF m = "fast" THEN "fast_loop" ELSE "precise_loop"
    /\ i' = 0
    /\ UNCHANGED gui_vars
    /\ UNCHANGED <<req_mode, resolution, scale_crop, segment_duration, ext,
                   ffmpeg_path, total_duration, original_resolution, cmd, cmds,
                   calls, returns, host_has_tool>>

\* a plausible slip: the loop without its "remaining_time <= 0" stop
LoopContinuesUnchecked(k) == k < num_segments

\* the loop goes on to build segment k
LoopContinues(k) ==
    /\ k < num_segments
    /\ RemainingTime(total_duration.v, k, segment_duration) > 0

\* fast loop, head to subprocess.run: build the command and start it, or leave
\* the loop and emit finished
FastBuild ==
    /\ pc = "fast_loop"
    /\ IF LoopContinues(i)
       THEN LET c == FastCmd(i, total_duration.v, segment_duration, scale_filter, ext)
            IN  /\ cmd' = c
                /\ cmds' = Append(cmds, c)
                /\ calls' = Append(calls, "segment")
                /\ events' = Append(events, Progress("segment_start", i + 1))
                /\ pc' = "fast_run"
       ELSE /\ events' = Append(events, Finished)
            /\ pc' = "done"
            /\ UNCHANGED <<cmd, cmds, calls>>
    /\ UNCHANGED gui_vars
    /\ UNCHANGED <<mode, req_mode, resolution, scale_crop, segment_duration, ext,
                   ffmpeg_path, total_duration, original_resolution, target,
                   num_segments, scale_filter, i, returns, host_has_tool>>

\* fast loop, subprocess.run to the end of the body
FastReturn ==
    /\ pc = "fast_run"
    /\ \E r \in SegmentResults :
         LET a == FastAfterRun(r, i, num_segments, segment_duration, total_duration.v)
         IN  /\ returns' = Append(returns, Return("segment", i, r))
             /\ events' = events \o a.emit
             /\ pc' = a.pc
             /\ i' = a.i
    /\ cmd' = NoCmd
    /\ UNCHANGED gui_vars
    /\ UNCHANGED <<mode, req_mode, resolution, scale_crop, segment_duration, ext,
                   ffmpeg_path, total_duration, original_resolution, target,
                   num_segments, scale_filter, cmds, calls, host_has_tool>>

\* precise loop, head to subprocess.run
PreciseBuild ==
    /\ pc = "precise_loop"
    /\ IF LoopContinues(i)
       THEN LET c == PreciseCmd(i, total_duration.v, segment_duration, scale_filter, ext)
            IN  /\ cmd' = c
                /\ cmds' = Append(cmds, c)
                /\ calls' = Append(calls, "segment")
                /\ events' = Append(events, Progress("segment_start", i + 1))
                /\ pc' = "precise_run"
       ELSE /\ events' = Append(events, Finished)
            /\ pc' = "done"
            /\ UNCHANGED <<cmd, cmds, calls>>
    /\ UNCHANGED gui_vars
    /\ UNCHANGED <<mode, req_mode, resolution, scale_crop, segment_duration, ext,
                   ffmpeg_path, total_duration, original_resolution, target,
                   num_segments, scale_filter, i, returns, host_has_tool>>

\* precise loop, subprocess.run to the end of the body
PreciseReturn ==
    /\ pc = "precise_run"
    /\ \E r \in SegmentResults :
         LET a == PreciseAfterRun(r, i, num_segments, segment_duration, total_duration.v)
         IN  /\ returns' = Append(returns, Return("segment", i, r))
             /\ events' = events \o a.emit
             /\ pc' = a.pc
             /\ i' = a.i
    /\ cmd' = NoCmd
    /\ UNCHANGED gui_vars
    /\ UNCHANGED <<mode, req_mode, resolution, scale_crop, segment_duration, ext,
                   ffmpeg_path, total_duration, original_resolution, target,
                   num_segments, scale_filter, cmds, calls, host_has_tool>>

\* calculate_target_resolution on its own: every source size of Dimensions as
\* the probe prints it, every aspect target
Dimensions ==
    (1..MaxDim)
        \cup {c + d : c \in {MaxSquare, MaxHeight45, MaxHeight916}, d \in {0 - 1, 0, 1}}
        \cup {2160, 3840}

InitGeometry ==
    /\ pc = "geometry"
    /\ original_resolution \in
           {Strip(FormatResolution(w, h)) : w \in Dimensions, h \in Dimensions}
    /\ resolution \in Ratios
    /\ mode = "precise"
    /\ req_mode = mode
    /\ scale_crop = TRUE
    /\ segment_duration = DefaultSegLen
    /\ ext = ".mp4"
    /\ ffmpeg_path = SomePath("<exe_dir>\\")
    /\ total_duration = NoDuration
    /\ target = NoTarget
    /\ num_segments = 0
    /\ scale_filter = NoFilter
    /\ i = 0
    /\ cmd = NoCmd
    /\ events = <<>>
    /\ cmds = <<>>
    /\ calls = <<>>
    /\ returns = <<>>
    /\ host_has_tool = TRUE
    /\ Started(ext)

CalculateTarget ==
    /\ pc = "geometry"
    /\ target' = calculate_target_resolution(original_resolution, resolution)
    /\ pc' = "geometry_done"
    /\ UNCHANGED gui_vars
    /\ UNCHANGED <<mode, req_mode, resolution, scale_crop, segment_duration, ext,
                   ffmpeg_path, total_duration, original_resolution, num_segments,
                   scale_filter, i, cmd, events, cmds, calls, returns,
                   host_has_tool>>

NextGeometry == CalculateTarget

SpecGeometry == InitGeometry /\ [][NextGeometry]_vars

Next ==
    \/ GetFfmpegPath
    \/ ProbeDuration
    \/ ProbeResolution
    \/ Plan
    \/ FastBuild
    \/ FastReturn
    \/ PreciseBuild
    \/ PreciseReturn

Spec == Init /\ [][Next]_vars

----------------------------------------------------------------------------
(* VideoSplitterApp: the window, its START button and its slots *)

\* settings of the widgets explored when START is clicked: either mode, and
\* the ratio, the scaling and the segment length init_ui sets
WidgetModes == {"fast", "precise"}
WidgetRatios == {"original"}
WidgetScaleCrop == {TRUE}
WidgetSegLens == {DefaultSegLen}

\* the files dropped or selected
WindowFiles == {".mov"}

\* a WorkerThread has been started and its finished or error signal has not
\* been handled by on_finished or on_error
Unhandled == pc # "none" /\ (pc # "done" \/ handled < Len(events))

\* WorkerThread(...) of line 500: the fields __init__ sets
NewWorker(m, r, sc, seg, e) ==
    /\ pc' = "start"
    /\ mode' = m
    /\ req_mode' = m
    /\ resolution' = r
    /\ scale_crop' = sc
    /\ segment_duration' = seg
    /\ ext' = e
    /\ ffmpeg_path' = NoPath
    /\ total_duration' = NoDuration
    /\ original_resolution' = <<>>
    /\ target' = NoTarget
    /\ num_segments' = 0
    /\ scale_filter' = NoFilter
    /\ i' = 0
    /\ cmd' = NoCmd
    /\ events' = <<>>
    /\ cmds' = <<>>
    /\ calls' = <<>>
    /\ returns' = <<>>
    /\ host_has_tool' = FALSE

\* the window after init_ui: no file, START disabled, the bar hidden and at
\* the value of a bar never set, no worker
InitApp ==
    /\ pc = "none"
    /\ mode = "fast"
    /\ req_mode = "fast"
    /\ resolution = "original"
    /\ scale_crop = TRUE
    /\ segment_duration = DefaultSegLen
    /\ ext = ""
    /\ ffmpeg_path = NoPath
    /\ total_duration = NoDuration
    /\ original_resolution = <<>>
    /\ target = NoTarget
    /\ num_segments = 0
    /\ scale_filter = NoFilter
    /\ i = 0
    /\ cmd = NoCmd
    /\ events = <<>>
    /\ cmds = <<>>
    /\ calls = <<>>
    /\ returns = <<>>
    /\ host_has_tool = FALSE
    /\ input_path = ""
    /\ start_enabled = FALSE
    /\ progress_visible = FALSE
    /\ progress_value = 0 - 1
    /\ log = <<>>
    /\ clicks = 0
    /\ mkdir_failures = 0
    /\ threads_started = 0
    /\ handled = 0
    /\ orphans = 0
    /\ alive = TRUE

\* dropEvent and select_file with a file: set_input_file
SetInputFile ==
    /\ alive
    /\ \E path \in WindowFiles : input_path' = path
    /\ start_enabled' = TRUE
    /\ log' = <<>>
    /\ UNCHANGED <<progress_visible, progress_value, clicks, mkdir_failures,
                   threads_started, handled, orphans>>
    /\ UNCHANGED alive
    /\ UNCHANGED worker_vars

\* a plausible slip: the except branch of makedirs does not return
StartsWorkerAnyway(path_set, dir_ok) == path_set

\* start_splitting gets to line 469: a file is chosen and makedirs succeeded
StartsWorker(path_set, dir_ok) == path_set /\ dir_ok

\* a click on START: start_splitting
StartSplitting ==
    /\ alive
    /\ start_enabled
    /\ clicks < MaxClicks
    /\ clicks' = clicks + 1
    /\ \E dir_ok \in BOOLEAN, outlives \in BOOLEAN :
         /\ mkdir_failures' = IF input_path # "" /\ ~dir_ok
                              THEN mkdir_failures + 1 ELSE mkdir_failures
         /\ IF StartsWorker(input_path # "", dir_ok)
            THEN IF Unhandled /\ ~outlives
                 THEN \* the thread dropped by the assignment of line 500 is
                      \* destroyed while it runs: Qt aborts the process
                      /\ alive' = FALSE
                      /\ UNCHANGED <<input_path, start_enabled, progress_visible,
                                     progress_value, log, threads_started,
                                     handled, orphans>>
                      /\ UNCHANGED worker_vars
                 ELSE /\ start_enabled' = FALSE
                      /\ progress_visible' = TRUE
                      /\ progress_value' = 0
                      /\ log' = Banner
                      /\ \E m \in WidgetModes, r \in WidgetRatios, sc \in WidgetScaleCrop,
                            seg \in WidgetSegLens :
                            NewWorker(m, r, sc, seg, input_path)
                      /\ threads_started' = threads_started + 1
                      /\ handled' = 0
                      /\ orphans' = IF Unhandled THEN orphans + 1 ELSE orphans
                      /\ UNCHANGED <<input_path, alive>>
            ELSE /\ log' = IF input_path # ""
                           THEN Append(log, "mkdir_error") ELSE log
                 /\ UNCHANGED <<input_path, start_enabled, progress_visible,
                                progress_value, threads_started, handled, orphans,
                                alive>>
                 /\ UNCHANGED worker_vars

\* a plausible slip: on_error leaves the button as it is
EnablesStartOnFinished(e) == e.type = "finished"

\* start_btn.setEnabled(True) in on_finished and in on_error
EnablesStart(e) == e.type \in {"finished", "error"}

\* the slots update_progress, update_segment_progress, on_finished and
\* on_error, run by the event loop for the next signal of worker_thread
Deliver ==
    /\ alive
    /\ handled < Len(events)
    /\ handled' = handled + 1
    /\ LET e == events[handled + 1]
       IN  CASE e.type = "progress" ->
                    /\ log' = Append(log, e.tag)
                    /\ UNCHANGED <<start_enabled, progress_visible, progress_value>>
             [] e.type = "segment_progress" ->
                    /\ progress_value' = e.n
                    /\ UNCHANGED <<start_enabled, progress_visible, log>>
             [] OTHER ->
                    /\ progress_visible' = FALSE
                    /\ start_enabled' = (start_enabled \/ EnablesStart(e))
                    /\ log' = log \o <<"", e.tag>>
                    /\ UNCHANGED progress_value
    /\ UNCHANGED <<input_path, clicks, mkdir_failures, threads_started, orphans,
                   alive>>
    /\ UNCHANGED worker_vars

\* on_finished or on_error for the terminal signal of a thread that
\* worker_thread no longer holds: its connections are still in place
OrphanTerminal ==
    /\ alive
    /\ orphans > 0
    /\ orphans' = orphans - 1
    /\ progress_visible' = FALSE
    /\ start_enabled' = TRUE
    /\ log' = log \o <<"", "orphan">>
    /\ UNCHANGED <<input_path, progress_value, clicks, mkdir_failures,
                   threads_started, handled, alive>>
    /\ UNCHANGED worker_vars

\* what the tools answer in the runs started from the window: a duration of
\* two default segments and a 1920x1080 source, or nothing, besides a non-zero
\* exit and a raised call
WindowAnswers ==
    \A k \in 1..Len(returns) :
        /\ returns[k].call = "duration" =>
              returns[k].stdout \in {<<>>, FormatDuration(DefaultSegLen * 20)}
        /\ returns[k].call = "resolution" =>
              returns[k].stdout \in {<<>>, FormatResolution(DefaultWidth, DefaultHeight)}

\* WorkerThread.run of the thread worker_thread holds
WorkerStep == alive /\ Next /\ WindowAnswers'

NextApp ==
    \/ SetInputFile
    \/ StartSplitting
    \/ Deliver
    \/ OrphanTerminal
    \/ WorkerStep

SpecApp == InitApp /\ [][NextApp]_vars

\* one started run and the slots that handle its signals: the thread runs on
\* while a step of run() is possible (every invocation of a tool returns) and
\* the event loop handles every signal queued
NextRun ==
    \/ WorkerStep
    \/ Deliver

\* the window right after its first start, the ratio as init_ui sets it
InitRun == Init /\ resolution \in WidgetRatios

SpecRun ==
    /\ InitRun
    /\ [][NextRun]_vars
    /\ WF_vars(WorkerStep)
    /\ WF_vars(Deliver)

----------------------------------------------------------------------------
(* Reading the logs *)

\* positions of the events equal to e
PositionsOf(e) == {k \in 1..Len(events) : events[k] = e}

Emitted(e) == PositionsOf(e) # {}

\* positions of the events of one type, or of one type and tag
OfType(type) == {k \in 1..Len(events) : events[k].type = type}

Tagged(tag) == {k \in 1..Len(events) : events[k].tag = tag}

\* the effective mode of the run, once the mode banner is out
RunsFast == Emitted(Progress("fast_mode", 0))

RunsPrecise == Emitted(Progress("precise_mode", 0))

\* the finished invocations of one kind
ReturnsOf(call) == {k \in 1..Len(returns) : returns[k].call = call}

\* the segments whose ffmpeg run came back with a non-zero exit code
FailedSegments ==
    {returns[k].i : k \in {j \in ReturnsOf("segment") :
                              ~returns[j].raised /\ returns[j].returncode # 0}}

\* the except branch of run() was taken
ExceptionRaised == Emitted(Exception)

\* ceil(total / (seg * 10)) for total > 0, total in tenths
CeilSegments(total, seg) == (total + seg * 10 - 1) \div (seg * 10)

----------------------------------------------------------------------------
(* C1: mode escalation.  In a run started in fast mode with an aspect target *)
(* other than original, no segment command is ever a stream-copy command:    *)
(* by the time the first command is built self.mode is precise and the       *)
(* switch notice was emitted before the first segment line; and in every run *)
(* a command that carries the -vf filter is a re-encode command.             *)
C1_ModeEscalation ==
    /\ (req_mode = "fast" /\ resolution # "original") =>
         /\ \A k \in 1..Len(cmds) : cmds[k].codec = "libx264"
         /\ cmds # <<>> =>
              /\ mode = "precise"
              /\ \E n \in PositionsOf(Progress("mode_switch", 0)) :
                   \A m \in Tagged("segment_start") : n < m
    /\ \A k \in 1..Len(cmds) : cmds[k].vf.present => cmds[k].codec = "libx264"

\* a fast request with a 9:16 target has built two filtered commands
C1_Witness ==
    /\ req_mode = "fast"
    /\ resolution = "9:16"
    /\ Len(cmds) >= 2
    /\ cmds[1].vf.present

(* C2: fast-mode failure policy.  In a run whose effective mode is fast, a   *)
(* segment whose ffmpeg run exits non-zero gets a warning line followed by   *)
(* its percentage and no error signal: the only error a fast run can emit is *)
(* the one of the except branch.  The loop goes on: unless an exception was  *)
(* raised, the run ends with finished after building every planned segment.  *)
C2_FastFailurePolicy ==
    RunsFast =>
        /\ \A k \in FailedSegments :
             \E n \in PositionsOf(Progress("segment_warning", k + 1)) :
                 /\ n < Len(events)
                 /\ events[n + 1].type = "segment_progress"
        /\ \A n \in OfType("error") : events[n] = Exception
        /\ (pc = "done" /\ ~ExceptionRaised) =>
             /\ events[Len(events)] = Finished
             /\ total_duration.v > 0 =>
                  Len(cmds) = CeilSegments(total_duration.v, segment_duration)
             /\ \A k \in FailedSegments : k + 1 <= Len(cmds)

\* a finished fast run of four segments whose second segment failed
C2_Witness ==
    /\ RunsFast
    /\ pc = "done"
    /\ Emitted(Finished)
    /\ FailedSegments = {1}
    /\ Len(cmds) = 4

(* C3: precise-mode failure policy.  In a run whose effective mode is        *)
(* precise, once a segment's ffmpeg run exits non-zero the run is over with  *)
(* the segment error as its last signal: no command for a later segment was  *)
(* built, the percentages emitted are those of the earlier segments only,    *)
(* and finished is never emitted.                                            *)
C3_PreciseFailurePolicy ==
    (RunsPrecise /\ FailedSegments # {}) =>
        \E k \in FailedSegments :
            /\ FailedSegments = {k}
            /\ pc = "done"
            /\ events[Len(events)] = Error("segment_failed", k + 1)
            /\ Cardinality(OfType("error")) = 1
            /\ \A c \in 1..Len(cmds) : cmds[c].i <= k
            /\ Cardinality(OfType("segment_progress")) = k
            /\ ~Emitted(Finished)

\* a precise run planned for four segments that stopped at its second
C3_Witness ==
    /\ RunsPrecise
    /\ FailedSegments = {1}
    /\ num_segments = 4
    /\ total_duration.v > 3 * segment_duration * 10

(* C4: tool-not-found short circuit.  When none of the search locations     *)
(* holds the tool, the run is over after discovery with the not-found error  *)
(* as its only signal: no probe was invoked, nothing was planned and no      *)
(* segment command was built.                                                *)
C4_ToolNotFound ==
    (pc # "start" /\ ~host_has_tool) =>
        /\ pc = "done"
        /\ events = <<Error("ffmpeg_not_found", 0)>>
        /\ calls = <<>>
        /\ returns = <<>>
        /\ cmds = <<>>
        /\ total_duration = NoDuration
        /\ target = NoTarget
        /\ num_segments = 0
        /\ scale_filter = NoFilter

\* discovery ran on a host without the tool
C4_Witness ==
    /\ pc = "done"
    /\ ~host_has_tool
    /\ ffmpeg_path = NoPath

\* the run ended with finished: no segment aborted it and nothing was raised
Completed == pc = "done" /\ Emitted(Finished)

\* sum of the durations of the first n commands built, in tenths
RECURSIVE SumDurations(_)
SumDurations(n) == IF n = 0 THEN 0 ELSE SumDurations(n - 1) + cmds[n].t

(* C5: segment plan coverage.  At every moment the k-th command built is for *)
(* index k-1 and starts at (k-1) * segment_duration, and each command starts *)
(* where the one before it ends; when a run over a positive duration ends    *)
(* with finished, the durations of its commands add up to the duration.      *)
C5_PlanCoverage ==
    /\ \A k \in 1..Len(cmds) :
         /\ cmds[k].i = k - 1
         /\ cmds[k].ss = (k - 1) * segment_duration
         /\ k > 1 => cmds[k].ss * 10 = cmds[k - 1].ss * 10 + cmds[k - 1].t
    /\ (Completed /\ total_duration.v > 0) =>
         SumDurations(Len(cmds)) = total_duration.v

\* a completed run of three whole segments and a shorter fourth
C5_Witness ==
    /\ Completed
    /\ Len(cmds) = 4
    /\ cmds[4].t < segment_duration * 10
    /\ SumDurations(4) = total_duration.v

(* C6: segment count.  A completed run over a positive duration has built    *)
(* exactly ceil(total_duration / segment_duration) commands, which for an    *)
(* exact multiple is the quotient and one less than num_segments; and no     *)
(* command ever starts at or after the end of the file or has a duration     *)
(* <= 0.  A duration of two default segment lengths gives two commands.      *)
C6_SegmentCount ==
    /\ (Completed /\ total_duration.v > 0) =>
         /\ Len(cmds) = CeilSegments(total_duration.v, segment_duration)
         /\ total_duration.v % (segment_duration * 10) = 0 =>
              /\ Len(cmds) = total_duration.v \div (segment_duration * 10)
              /\ Len(cmds) = num_segments - 1
    /\ \A k \in 1..Len(cmds) :
         /\ cmds[k].ss * 10 < total_duration.v
         /\ cmds[k].t > 0
    /\ (Completed /\ segment_duration = DefaultSegLen
          /\ total_duration.v = 2 * DefaultSegLen * 10) => Len(cmds) = 2

\* 120 s cut by 60 s: two commands out of three planned slots
C6_Witness ==
    /\ Completed
    /\ segment_duration = DefaultSegLen
    /\ total_duration.v = 2 * DefaultSegLen * 10
    /\ num_segments = 3
    /\ Len(cmds) = 2

(* C7: last-segment truncation.  In a completed run every command but the    *)
(* last has the duration segment_duration, and the last has the duration     *)
(* total_duration - start, which is > 0 and <= segment_duration.  125 s cut  *)
(* by 60 s gives (0,60), (60,60), (120,5).                                   *)
C7_LastSegment ==
    /\ (Completed /\ cmds # <<>>) =>
         LET last == cmds[Len(cmds)]
         IN  /\ \A k \in 1..(Len(cmds) - 1) : cmds[k].t = segment_duration * 10
             /\ last.t = total_duration.v - last.ss * 10
             /\ last.t > 0
             /\ last.t <= segment_duration * 10
    /\ (Completed /\ segment_duration = DefaultSegLen
          /\ total_duration.v = 2 * DefaultSegLen * 10 + 50) =>
         [k \in 1..Len(cmds) |-> <<cmds[k].ss, cmds[k].t>>]
             = <<<<0, 600>>, <<60, 600>>, <<120, 50>>>>

\* 125 s cut by 60 s, completed
C7_Witness ==
    /\ Completed
    /\ segment_duration = DefaultSegLen
    /\ total_duration.v = 2 * DefaultSegLen * 10 + 50
    /\ Len(cmds) = 3
    /\ cmds[3].t = 50

\* the target a source of w x h must get for an aspect target, by the rules
\* of the ratio classes; the companion dimension is the floor of the quotient
ExpectedTarget(w, h, ratio) ==
    CASE ratio = "9:16" ->
           Target((Min2(h, 1920) * 9) \div 16, Min2(h, 1920))
      [] ratio = "4:5" ->
           Target((Min2(h, 1350) * 4) \div 5, Min2(h, 1350))
      [] ratio = "1:1" ->
           Target(Min2(Min2(w, h), 1080), Min2(Min2(w, h), 1080))
      [] ratio = "16:9" ->
           Target(Min2(w, 1920), (Min2(w, 1920) * 9) \div 16)

(* C8: ratio arithmetic.  For every source size w x h > 0 printed by the     *)
(* probe and each of the four ratio targets, calculate_target_resolution     *)
(* returns the bounded dimension and the floor of the companion dimension;   *)
(* 1920x1080 with 9:16 gives 607x1080.                                       *)
C8_RatioArithmetic ==
    (pc = "geometry_done" /\ resolution # "original") =>
        /\ \A w \in Dimensions, h \in Dimensions :
             original_resolution = Strip(FormatResolution(w, h)) =>
                 target = ExpectedTarget(w, h, resolution)
        /\ (original_resolution = DefaultResolution /\ resolution = "9:16") =>
             target = Target(607, 1080)

\* 1920x1080 planned for 9:16
C8_Witness ==
    /\ pc = "geometry_done"
    /\ original_resolution = DefaultResolution
    /\ resolution = "9:16"
    /\ target = Target(607, 1080)

(* C9: the original target means no transform.  With the aspect target      *)
(* original, whatever the resolution probe printed, no target size is        *)
(* computed, the scale filter stays empty, no command carries -vf, and       *)
(* self.mode stays what the caller asked for, so every command is of the     *)
(* requested kind.  For every target, a requested precise mode stays precise.*)
C9_OriginalNoTransform ==
    /\ resolution = "original" =>
         /\ target = NoTarget
         /\ scale_filter = NoFilter
         /\ mode = req_mode
         /\ ~Emitted(Progress("mode_switch", 0))
         /\ \A k \in 1..Len(cmds) :
              /\ ~cmds[k].vf.present
              /\ cmds[k].codec = IF req_mode = "fast" THEN "copy" ELSE "libx264"
    /\ req_mode = "precise" =>
         /\ mode = "precise"
         /\ \A k \in 1..Len(cmds) : cmds[k].codec = "libx264"

\* a fast run with the original target built stream-copy commands after the
\* resolution probe printed text that is no size
C9_Witness ==
    /\ resolution = "original"
    /\ req_mode = "fast"
    /\ original_resolution = <<"N", "/", "A">>
    /\ Len(cmds) >= 2
    /\ cmds[2].codec = "copy"

\* output of the duration probe that is no duration: nothing, text that is no
\* number, or no finite number
NotADuration ==
    {<<>>, <<"\n">>, <<"N", "/", "A", "\n">>, <<"n", "a", "n">>, <<"i", "n", "f">>}

\* output on which float() raises at once
NotAFloat == {<<>>, <<"\n">>, <<"N", "/", "A", "\n">>}

\* the duration probe came back with a non-zero exit code or without a duration
DurationProbeFailed ==
    \E k \in ReturnsOf("duration") :
        /\ ~returns[k].raised
        /\ returns[k].returncode # 0 \/ returns[k].stdout \in NotADuration

(* C10: probe failure is terminal.  Once the duration probe has exited       *)
(* non-zero or printed nothing or no number, no segment command is built or  *)
(* run, no percentage and no finished is emitted, and the run ends with one  *)
(* terminal signal, an error; on a non-zero exit or text float() rejects the *)
(* run is over at once.                                                      *)
C10_ProbeFailureTerminal ==
    DurationProbeFailed =>
        /\ cmds = <<>>
        /\ \A k \in 1..Len(calls) : calls[k] # "segment"
        /\ OfType("segment_progress") = {}
        /\ ~Emitted(Finished)
        /\ pc \in {"probe_resolution", "plan", "done"}
        /\ pc = "done" =>
             /\ Cardinality({k \in 1..Len(events) : IsTerminal(events[k])}) = 1
             /\ events[Len(events)].type = "error"
        /\ \A k \in ReturnsOf("duration") :
             (returns[k].returncode # 0 \/ returns[k].stdout \in NotAFloat) =>
                 pc = "done"

\* the duration probe printed N/A and the run ended with the error of the
\* except branch
C10_Witness ==
    /\ \E k \in ReturnsOf("duration") :
         returns[k].returncode = 0 /\ returns[k].stdout = <<"N", "/", "A", "\n">>
    /\ pc = "done"
    /\ events[Len(events)] = Exception

\* output of the resolution probe that is no WIDTHxHEIGHT token
NotAResolution ==
    {<<>>, <<"N", "/", "A", "\n">>,
     FormatResolution(1280, 720) \o FormatResolution(1280, 720)}

\* the resolution probe came back with a non-zero exit code, or with output
\* that is no size
ResolutionProbeFailed ==
    \E k \in ReturnsOf("resolution") :
        /\ ~returns[k].raised
        /\ returns[k].returncode # 0 \/ returns[k].stdout \in NotAResolution

\* the planning step is behind
Planned == pc \in {"fast_loop", "fast_run", "precise_loop", "precise_run", "done"}

(* C11: resolution fallback.  After the resolution probe has exited non-zero *)
(* or printed no WIDTHxHEIGHT token the run goes on to planning without an   *)
(* error; for a ratio target the target size is the one of a 1920x1080       *)
(* source; and, the duration being a positive number, the first segment      *)
(* command is built and the only errors the run can still emit are those of  *)
(* a raised call or of a precise segment failure.                            *)
C11_ResolutionFallback ==
    ResolutionProbeFailed =>
        /\ pc # "probe_resolution"
        /\ pc = "plan" => OfType("error") = {}
        /\ (Planned /\ resolution # "original") =>
             target = ExpectedTarget(1920, 1080, resolution)
        /\ (Planned /\ total_duration.kind = "num") =>
             /\ \A n \in OfType("error") :
                  events[n].tag \in {"exception", "segment_failed"}
             /\ \A n \in PositionsOf(Exception) :
                  \E k \in ReturnsOf("segment") : returns[k].raised
             /\ total_duration.v > 0 =>
                  \/ pc \in {"fast_loop", "precise_loop"} /\ i = 0
                  \/ cmds # <<>>

\* the resolution probe printed N/A, the target is 9:16, and the run completed
\* with two commands scaled to 607x1080
C11_Witness ==
    /\ \E k \in ReturnsOf("resolution") :
         returns[k].returncode = 0 /\ returns[k].stdout = <<"N", "/", "A", "\n">>
    /\ resolution = "9:16"
    /\ Completed
    /\ Len(cmds) = 2
    /\ cmds[2].vf.w = 607
    /\ cmds[2].vf.h = 1080

\* the 1920x1080 fallback was taken: line 64 on a non-zero exit, line 232 on
\* text that is no size (reached only for a ratio target)
FallbackTaken ==
    \E k \in ReturnsOf("resolution") :
        /\ ~returns[k].raised
        /\ \/ returns[k].returncode # 0
           \/ /\ returns[k].stdout \in NotAResolution
              /\ resolution # "original"
              /\ pc # "plan"

(* C12: the fallback is surfaced.  Whenever the 1920x1080 fallback has been  *)
(* taken, a warning naming the fallback is among the signals emitted.        *)
C12_FallbackSurfaced ==
    FallbackTaken =>
        \E n \in 1..Len(events) :
            /\ events[n].type \in {"progress", "error"}
            /\ events[n].tag \in {"resolution_fallback", "resolution_warning"}

\* the positions of the terminal signals, finished and error
Terminals == {n \in 1..Len(events) : IsTerminal(events[n])}

\* get_ffmpeg_path came back with nothing usable
ToolNotFound == pc # "start" /\ ~Truthy(ffmpeg_path)

\* a call of subprocess.run raised
CallRaised == \E k \in 1..Len(returns) : returns[k].raised

\* a condition run() treats as fatal has occurred
Fatal ==
    \/ ToolNotFound
    \/ DurationProbeFailed
    \/ RunsPrecise /\ FailedSegments # {}
    \/ CallRaised

(* C13: single terminal event.  A run that has ended has emitted exactly one *)
(* terminal signal, finished or error, and it is the last signal emitted; a  *)
(* run that has not ended has emitted none; and once the tool is not found,  *)
(* the duration probe has failed, a precise segment has exited non-zero or a *)
(* call has raised, finished is never emitted and the run ends with error.   *)
C13_SingleTerminal ==
    /\ pc = "done" => Terminals = {Len(events)}
    /\ pc # "done" => Terminals = {}
    /\ Fatal =>
         /\ ~Emitted(Finished)
         /\ pc = "done" => events[Len(events)].type = "error"

\* a precise run that ended on the failure of its second segment: two
\* percentage-free signals for it and one error, the last signal
C13_Witness ==
    /\ pc = "done"
    /\ RunsPrecise
    /\ FailedSegments = {1}
    /\ Len(events) > 0
    /\ events[Len(events)] = Error("segment_failed", 2)
    /\ Cardinality(Terminals) = 1

\* ceil(total_duration / segment_duration) segments are planned, none for a
\* duration that is not positive
PlannedSegments ==
    IF total_duration.v > 0
    THEN CeilSegments(total_duration.v, segment_duration) ELSE 0

(* C14: completed implies full coverage.  finished is emitted only when the  *)
(* tool was found, the duration probe exited 0 with a number, a command was  *)
(* built and run to its return for each of the ceil(total_duration /         *)
(* segment_duration) planned segments, none of them raising, and, in a       *)
(* precise run, each of them exiting with code 0.                            *)
C14_CompletedCoverage ==
    Emitted(Finished) =>
        /\ host_has_tool
        /\ Truthy(ffmpeg_path)
        /\ \E k \in ReturnsOf("duration") :
              /\ ~returns[k].raised
              /\ returns[k].returncode = 0
              /\ ParseFloat(returns[k].stdout).kind = "num"
        /\ total_duration.kind = "num"
        /\ RunsFast \/ RunsPrecise
        /\ Len(cmds) = PlannedSegments
        /\ {returns[k].i : k \in ReturnsOf("segment")} = 0..(PlannedSegments - 1)
        /\ \A k \in ReturnsOf("segment") : ~returns[k].raised
        /\ RunsPrecise => FailedSegments = {}

\* a completed precise run of three segments, each exiting with code 0
C14_Witness ==
    /\ Completed
    /\ RunsPrecise
    /\ PlannedSegments = 3
    /\ Cardinality(ReturnsOf("segment")) = 3
    /\ \A k \in ReturnsOf("segment") : returns[k].returncode = 0

\* positions of the segment_progress signals
Percentages == OfType("segment_progress")

\* how many percentages were emitted up to position n
PercentagesUpTo(n) == Cardinality({m \in Percentages : m <= n})

(* C15: progress ordering.  Every percentage emitted lies in 0..100; the     *)
(* j-th percentage of a run directly follows the ready or warning line of    *)
(* segment j, so percentages come in segment index order; and a later        *)
(* percentage is never below an earlier one.                                 *)
C15_ProgressOrdering ==
    /\ \A n \in Percentages :
         /\ events[n].n \in 0..100
         /\ n > 1
         /\ events[n - 1].type = "progress"
         /\ events[n - 1].tag \in {"segment_ready", "segment_warning"}
         /\ events[n - 1].n = PercentagesUpTo(n)
    /\ \A a, b \in Percentages : a < b => events[a].n <= events[b].n

\* a completed run of three segments whose percentages were 25, 50, 75: four
\* slots were planned for a duration the segment length divides
C15_Witness ==
    /\ Completed
    /\ num_segments = 4
    /\ Cardinality(Percentages) = 3
    /\ \E a, b, c \in Percentages :
         /\ a < b /\ b < c
         /\ events[a].n = 25 /\ events[b].n = 50 /\ events[c].n = 75

(* C16: output naming and container.  The name of the k-th command's output  *)
(* carries the index k-1 as decimal digits, zero-padded to three and never   *)
(* beyond what the number needs; its extension is the source file's in a     *)
(* stream-copy command and .mp4 in a re-encode command, whatever the source  *)
(* extension; the commands of a fast run are stream copies and those of a    *)
(* precise run, escalated or not, re-encodes; and no two commands of a run   *)
(* name the same output file.                                                *)
C16_OutputNaming ==
    /\ \A k \in 1..Len(cmds) :
         /\ Len(cmds[k].index) >= 3
         /\ AllDigits(cmds[k].index)
         /\ DigitsValue(cmds[k].index) = k - 1
         /\ Len(cmds[k].index) > 3 => cmds[k].index[1] # "0"
         /\ cmds[k].codec = "copy" => cmds[k].ext = ext
         /\ cmds[k].codec = "libx264" => cmds[k].ext = ".mp4"
         /\ RunsFast => cmds[k].codec = "copy"
         /\ RunsPrecise => cmds[k].codec = "libx264"
    /\ \A j, k \in 1..Len(cmds) :
         j # k => <<cmds[j].index, cmds[j].ext>> # <<cmds[k].index, cmds[k].ext>>

\* an escalated run on a .mov source writing its second segment to _001.mp4
C16_Witness ==
    /\ req_mode = "fast"
    /\ RunsPrecise
    /\ ext = ".mov"
    /\ Len(cmds) >= 2
    /\ cmds[2].index = <<"0", "0", "1">>
    /\ cmds[2].ext = ".mp4"

\* floor(total_duration / segment_duration) + 1
SegmentCount == (total_duration.v \div (segment_duration * 10)) + 1

(* C18: percentage formula.  For a positive duration, the percentage emitted *)
(* after the segment with index i is (i + 1) / segmentCount * 100 rounded to *)
(* the nearest integer, segmentCount being floor(total_duration /            *)
(* segment_duration) + 1.                                                    *)
C18_PercentageRounded ==
    (total_duration.kind = "num" /\ total_duration.v > 0) =>
        \A n \in Percentages :
            events[n].n = IntDivRounded(PercentagesUpTo(n) * 100, SegmentCount)

\* the invocations of ffmpeg for a segment, by position in the call log
SegmentCalls == {k \in 1..Len(calls) : calls[k] = "segment"}

\* how many segment invocations returned before position k of the return log
SegmentReturnsBefore(k) == Cardinality({m \in ReturnsOf("segment") : m < k})

\* subprocess.run is executing a segment command
SegmentRunning == pc \in {"fast_run", "precise_run"}

(* C19: sequential, no retry.  The k-th segment invocation of a run is for   *)
(* index k-1, so indices go up from 0 by one and none is invoked twice,      *)
(* failed or not; the k-th segment return is that of index k-1; and at most  *)
(* one invocation is outstanding, exactly while run() waits in               *)
(* subprocess.run, so that a command is built only after the one before it   *)
(* has returned.                                                             *)
C19_SequentialNoRetry ==
    /\ Cardinality(SegmentCalls) = Len(cmds)
    /\ \A k \in 1..Len(cmds) : cmds[k].i = k - 1
    /\ \A k \in ReturnsOf("segment") : returns[k].i = SegmentReturnsBefore(k)
    /\ Len(calls) - Len(returns) = (IF SegmentRunning THEN 1 ELSE 0)
    /\ Len(cmds) - Cardinality(ReturnsOf("segment")) = (IF SegmentRunning THEN 1 ELSE 0)
    /\ SegmentRunning <=> cmd # NoCmd
    /\ SegmentRunning => cmd = cmds[Len(cmds)]

\* a fast run whose first segment exited non-zero and which went on to run
\* segments 1 and 2, each once, and completed
C19_Witness ==
    /\ Completed
    /\ RunsFast
    /\ 0 \in FailedSegments
    /\ Len(cmds) = 3
    /\ Cardinality(ReturnsOf("segment")) = 3

(* C17: directory creation failure is fatal before planning.  Every click on *)
(* START either starts one WorkerThread, or ends on a failed makedirs, or    *)
(* ends the process; the step of a failed makedirs appends the failure line  *)
(* to the log, creates and starts no WorkerThread and leaves every field of  *)
(* the worker as it was; and while no WorkerThread has been started there is *)
(* no tool discovery, no probe, no plan and no segment command.              *)
C17_DirectoryFailureFatal ==
    /\ [](/\ threads_started + mkdir_failures + (IF alive THEN 0 ELSE 1) = clicks
          /\ threads_started = 0 =>
               /\ pc = "none"
               /\ calls = <<>>
               /\ cmds = <<>>
               /\ events = <<>>
               /\ num_segments = 0)
    /\ [][mkdir_failures' # mkdir_failures =>
             /\ log' = Append(log, "mkdir_error")
             /\ threads_started' = threads_started
             /\ UNCHANGED worker_vars
             /\ UNCHANGED <<start_enabled, progress_visible, progress_value>>]_vars

\* the first click on START failed on makedirs: the failure line is the log,
\* and there is no worker
C17_Witness ==
    /\ input_path # ""
    /\ clicks = 1
    /\ mkdir_failures = 1
    /\ threads_started = 0
    /\ log = <<"mkdir_error">>
    /\ pc = "none"

\* threads started whose finished or error signal has not been handled
ActiveRuns == orphans + (IF Unhandled THEN 1 ELSE 0)

(* C20: at most one run at a time.  From the start of a WorkerThread until   *)
(* its finished or error signal has been handled no second WorkerThread is   *)
(* started: at most one started thread has its terminal signal outstanding.  *)
C20_SingleRun == ActiveRuns <= 1

\* the duration probe exited 0 and printed a negative number
NegativeDurationProbed ==
    \E k \in ReturnsOf("duration") :
        /\ ~returns[k].raised
        /\ returns[k].returncode = 0
        /\ ParseFloat(returns[k].stdout).kind = "num"
        /\ ParseFloat(returns[k].stdout).v < 0

(* C21: duration domain.  When the duration probe exits 0 but prints a       *)
(* negative number, finished is never emitted and the run ends with error.   *)
C21_DurationDomain ==
    NegativeDurationProbed =>
        /\ ~Emitted(Finished)
        /\ pc = "done" => events[Len(events)].type = "error"

Even(n) == n % 2 = 0

(* C22: even dimensions.  The width and the height written into the -vf      *)
(* filter of a command are both even.                                        *)
C22_EvenDimensions ==
    \A k \in 1..Len(cmds) :
        cmds[k].vf.present => Even(cmds[k].vf.w) /\ Even(cmds[k].vf.h)

(* C23: positive dimensions.  For every source size w x h > 0 and each of    *)
(* the four ratio targets, the target width and height planned are both      *)
(* positive.                                                                 *)
C23_PositiveDimensions ==
    (pc = "geometry_done" /\ resolution # "original") =>
        /\ target.some
        /\ target.w > 0
        /\ target.h > 0

\* what raises in run(): a call of subprocess.run, float() of the duration
\* text, int() of a duration that is nan or inf
Raises ==
    \/ CallRaised
    \/ \E k \in ReturnsOf("duration") :
          /\ ~returns[k].raised
          /\ returns[k].returncode = 0
          /\ ParseFloat(returns[k].stdout).kind = "error"
    \/ Planned /\ total_duration.kind \in {"nan", "inf"}

(* C24: unexpected failure is fatal and reported.  Once a call of            *)
(* subprocess.run has raised (in a probe or for segment i), or float() or    *)
(* int() of the duration has raised, the run has ended, its one terminal     *)
(* signal is the error of the except branch and the last signal, finished is *)
(* not emitted, and no segment command was built after the raise: a raised   *)
(* call is the last call made.                                               *)
C24_UnexpectedFailureFatal ==
    /\ Raises =>
         /\ pc = "done"
         /\ Terminals = {Len(events)}
         /\ events[Len(events)] = Exception
         /\ ~Emitted(Finished)
    /\ \A k \in 1..Len(returns) :
         returns[k].raised => (k = Len(returns) /\ Len(calls) = k)
    /\ Emitted(Exception) => Raises

\* subprocess.run raised for the second segment of a fast run
C24_Witness ==
    /\ RunsFast
    /\ Len(cmds) = 2
    /\ Cardinality(ReturnsOf("segment")) = 2
    /\ returns[Len(returns)].raised
    /\ pc = "done"
    /\ events[Len(events)] = Exception

\* position of the last percentage emitted
LastPercentage == CHOOSE n \in Percentages : \A m \in Percentages : m <= n

(* C26: completion reaches 100.  In a run over a positive duration that ends *)
(* with finished after at least one segment, the last percentage emitted is  *)
(* 100.                                                                      *)
C26_CompletionReaches100 ==
    (Completed /\ total_duration.v > 0 /\ Percentages # {}) =>
        events[LastPercentage].n = 100

\* every signal of the run has been handled and the window is ready again
Recovered ==
    /\ pc = "done"
    /\ handled = Len(events)
    /\ start_enabled
    /\ ~progress_visible

(* C25: run termination and GUI recovery.  Every tool invocation returning,  *)
(* a started run eventually ends with exactly one terminal signal, the last  *)
(* it emits; until that signal is handled START stays disabled and the bar   *)
(* visible; the step that handles it enables START and hides the bar; and    *)
(* from some moment on every signal is handled and the window stays ready.   *)
C25_TerminationAndRecovery ==
    /\ <>(pc = "done" /\ Terminals = {Len(events)})
    /\ [](\A n \in Terminals : handled < n => (~start_enabled /\ progress_visible))
    /\ [][(handled' = handled + 1 /\ IsTerminal(events[handled + 1])) =>
             (start_enabled' /\ ~progress_visible')]_vars
    /\ <>[]Recovered

\* the error of a failed precise segment has been handled: START is enabled
\* and the bar hidden
C25_Witness ==
    /\ Recovered
    /\ RunsPrecise
    /\ FailedSegments # {}
    /\ events[Len(events)].tag = "segment_failed"

====
